---- MODULE Spec2Model ----
(***************************************************************************)
(* Model of video_button_runner.py: the USB sync helpers, the two player  *)
(* backends (MPVPlayer, OMXPlayer) and main_loop.                          *)
(*                                                                         *)
(* A file is a record [name, ext, size, mtime]; mtime is counted in ticks *)
(* of 1/TicksPerSec second, so that int(st_mtime) is a real truncation.    *)
(* The store (TARGET_DIR) is a function from file names to [size, mtime]   *)
(* or NoFile.  The mount table (/proc/mounts) is a sequence of entries in  *)
(* mount order; several mounts may be stacked on one mountpoint and the    *)
(* last one is the one the path shows and the one umount removes.         *)
(***************************************************************************)
EXTENDS Integers, Sequences, FiniteSets, TLC

VARIABLES
    backend,       \* "mpv" or "omxplayer": the player pick_player returned
    pc,            \* position of main_loop (of the caller, where the player
                   \* interface or the sync helpers are run on their own)
    proc,          \* player.proc: the tracked child process
    strays,        \* TRUE iff a player process spawned earlier and no longer tracked is alive
    sock,          \* TRUE iff the file IPC_SOCK exists
    store,         \* TARGET_DIR: file name -> [size, mtime] or NoFile
    attached,      \* the /dev/sd*[0-9] partitions present
    vol,           \* content of each partition: the video tree in os.walk order
    mounts,        \* /proc/mounts, entries [dev, mnt, by_us]
    needs_list,    \* main_loop's needs_list
    copied,        \* main_loop's copied
    offered,       \* the partitions whose files perform_copy_and_unmount read last
    chosen,        \* main_loop's chosen
    current_file,  \* main_loop's current_file
    last_loaded,   \* main_loop's last_loaded
    pending,       \* history: partitions whose update arrived during playback
                   \* and has not been played since
    launch         \* what pick_player reads at startup: [mode, env, which];
                   \* NoLaunch once main_loop has its player

vars == <<backend, pc, proc, strays, sock, store, attached, vol, mounts,
          needs_list, copied, offered, chosen, current_file, last_loaded, pending,
          launch>>

(***************************************************************************)
(* Bounds and constants                                                    *)
(***************************************************************************)
NumDevs == 2

TicksPerSec == 2

USB_DEFAULT_MOUNT == 0

Devs == 1..NumDevs

None == "none"

NoFile == [size |-> -1, mtime |-> -1]

NoMount == -1

VIDEO_EXTS == {".mp4", ".mov", ".mkv", ".avi", ".m4v"}

Names == {"a.mp4", "b.mkv"}

\* The sticks that can be plugged in: each a tree [top, sub], the files of the
\* volume root and the files of its videos/ subfolder, in os.walk order.  The
\* a.mp4 of the first differs from the one of InitialStores; once copied, the
\* stick needs no copy.
VolumeImages ==
    { [top |-> <<[name |-> "a.mp4", ext |-> ".mp4", size |-> 2, mtime |-> 3],
                 [name |-> "notes.txt", ext |-> ".txt", size |-> 1, mtime |-> 9]>>,
       sub |-> <<>>],
      [top |-> <<>>,
       sub |-> <<[name |-> "b.mkv", ext |-> ".mkv", size |-> 1, mtime |-> 5]>>] }

NoVolume == [top |-> <<>>, sub |-> <<>>]

EmptyStore == [n \in Names |-> NoFile]

InitialStores == {EmptyStore, [EmptyStore EXCEPT !["a.mp4"] = [size |-> 1, mtime |-> 2]]}

\* int(st_mtime)
IntMtime(t) == t \div TicksPerSec

(***************************************************************************)
(* Mount table                                                             *)
(***************************************************************************)
\* The system mounts partition dev on a mountpoint of its own.
SysMountPoint(dev) == dev

MountedDevs(mt) == {mt[i].dev : i \in 1..Len(mt)}

\* is_mounted: the mountpoint of the first line of /proc/mounts naming dev.
is_mounted(dev, mt) ==
    IF dev \in MountedDevs(mt)
    THEN mt[CHOOSE i \in 1..Len(mt) :
                /\ mt[i].dev = dev
                /\ \A j \in 1..(i - 1) : mt[j].dev # dev].mnt
    ELSE NoMount

\* Index of the mount a path shows: the last one mounted on it (0: nothing).
TopIndex(mnt, mt) ==
    IF \E i \in 1..Len(mt) : mt[i].mnt = mnt
    THEN CHOOSE i \in 1..Len(mt) :
             /\ mt[i].mnt = mnt
             /\ \A j \in (i + 1)..Len(mt) : mt[j].mnt # mnt
    ELSE 0

VisibleDev(mnt, mt) == IF TopIndex(mnt, mt) = 0 THEN 0 ELSE mt[TopIndex(mnt, mt)].dev

RemoveAt(s, i) == SubSeq(s, 1, i - 1) \o SubSeq(s, i + 1, Len(s))

\* mount_partition: [mounts, mnt, mounted_by_us]; ok is whether mount(8) succeeds.
mount_partition(dev, mt, ok) ==
    LET pre == is_mounted(dev, mt)
    IN  IF pre # NoMount
        THEN [mounts |-> mt, mnt |-> pre, mounted_by_us |-> FALSE]
        ELSE IF ok
             THEN [mounts |-> Append(mt, [dev |-> dev, mnt |-> USB_DEFAULT_MOUNT,
                                          by_us |-> TRUE]),
                   mnt |-> USB_DEFAULT_MOUNT, mounted_by_us |-> TRUE]
             ELSE [mounts |-> mt, mnt |-> NoMount, mounted_by_us |-> FALSE]

\* unmount_path: umount removes the topmost mount of the path, if any.
unmount_path(mnt, mt) ==
    IF TopIndex(mnt, mt) = 0 THEN mt ELSE RemoveAt(mt, TopIndex(mnt, mt))

(***************************************************************************)
(* Sync: would_copy_new_videos, copy_new_videos                            *)
(***************************************************************************)
\* name.lower().endswith(VIDEO_EXTS)
IsVideo(f) == f.ext \in VIDEO_EXTS

\* Mutant: the modification times are compared without int().
Differs_RawMtime(f, d) == (f.size # d.size) \/ (f.mtime # d.mtime)

Differs(f, d) == (f.size # d.size) \/ (IntMtime(f.mtime) # IntMtime(d.mtime))

\* would_copy_new_videos over the files os.walk(src_dir) yields.
would_copy_new_videos(files, dst) ==
    \E i \in 1..Len(files) :
        /\ IsVideo(files[i])
        /\ \/ dst[files[i].name] = NoFile
           \/ Differs(files[i], dst[files[i].name])

\* One iteration of the loop of copy_new_videos; copy2 raises for the names in fail.
CopyOne(f, acc, fail) ==
    IF ~IsVideo(f) THEN acc
    ELSE IF acc.dst[f.name] = NoFile \/ Differs(f, acc.dst[f.name])
         THEN IF f.name \in fail
              THEN acc
              ELSE [dst |-> [acc.dst EXCEPT ![f.name] = [size |-> f.size, mtime |-> f.mtime]],
                    copied_any |-> TRUE]
         ELSE acc

RECURSIVE CopyFrom(_, _, _, _)
CopyFrom(files, i, acc, fail) ==
    IF i > Len(files) THEN acc
    ELSE CopyFrom(files, i + 1, CopyOne(files[i], acc, fail), fail)

\* copy_new_videos: [dst, copied_any]
copy_new_videos(files, dst, fail) ==
    CopyFrom(files, 1, [dst |-> dst, copied_any |-> FALSE], fail)

\* os.walk of a candidate directory of a volume: the root holds everything.
Walk(v, cand) == IF cand = "root" THEN v.top \o v.sub ELSE v.sub

\* scan_usb_candidates: the volume root, and its videos/ subfolder when present.
scan_usb_candidates(v) == IF Len(v.sub) > 0 THEN <<"root", "videos">> ELSE <<"root">>

\* The tree a path shows: that of the partition mounted last on it.
TreeAt(mnt, mt, vols) ==
    IF VisibleDev(mnt, mt) = 0 THEN NoVolume ELSE vols[VisibleDev(mnt, mt)]

\* for cand in scan_usb_candidates(mnt): if would_copy_new_videos(cand, TARGET_DIR)
AnyCandidateNeeds(v, dst) ==
    \E k \in 1..Len(scan_usb_candidates(v)) :
        would_copy_new_videos(Walk(v, scan_usb_candidates(v)[k]), dst)

\* (mnt, mounted_by_us) in needs: the tuples of needs carry no device.
InNeeds(mnt, by_us, needs) ==
    \E i \in 1..Len(needs) : needs[i].mnt = mnt /\ needs[i].mounted_by_us = by_us

\* if (mnt, mounted_by_us) not in needs and mounted_by_us: unmount_path(mnt)
ReleaseAfterProbe(mnt, by_us, needs, mt) ==
    IF ~InNeeds(mnt, by_us, needs) /\ by_us THEN unmount_path(mnt, mt) ELSE mt

\* The loop of check_usb_for_updates from partition dev on; mount fails for mfail.
\* An entry of needs also records the partition it was appended for (dev), which
\* the program does not keep.
RECURSIVE CheckFrom(_, _, _, _, _, _, _)
CheckFrom(dev, att, vols, dst, mt, needs, mfail) ==
    IF dev > NumDevs THEN [mounts |-> mt, needs |-> needs]
    ELSE IF dev \notin att THEN CheckFrom(dev + 1, att, vols, dst, mt, needs, mfail)
    ELSE LET r == mount_partition(dev, mt, dev \notin mfail)
         IN  IF r.mnt = NoMount
             THEN CheckFrom(dev + 1, att, vols, dst, r.mounts, needs, mfail)
             ELSE LET needs2 ==
                          IF AnyCandidateNeeds(TreeAt(r.mnt, r.mounts, vols), dst)
                          THEN Append(needs, [mnt |-> r.mnt,
                                              mounted_by_us |-> r.mounted_by_us,
                                              dev |-> dev])
                          ELSE needs
                      mt2 == ReleaseAfterProbe(r.mnt, r.mounted_by_us, needs2, r.mounts)
                  IN  CheckFrom(dev + 1, att, vols, dst, mt2, needs2, mfail)

\* A mount made in an earlier cycle is one this cycle finds already mounted.
Settled(mt) == [i \in 1..Len(mt) |-> [mt[i] EXCEPT !.by_us = FALSE]]

\* check_usb_for_updates: [mounts, needs]
check_usb_for_updates(att, vols, dst, mt, mfail) ==
    CheckFrom(1, att, vols, dst, Settled(mt), <<>>, mfail)

\* The candidates of one entry of needs_list, copied in turn.
RECURSIVE CopyCandidates(_, _, _, _)
CopyCandidates(v, k, acc, fail) ==
    IF k > Len(scan_usb_candidates(v)) THEN acc
    ELSE LET r == copy_new_videos(Walk(v, scan_usb_candidates(v)[k]), acc.dst, fail)
         IN  CopyCandidates(v, k + 1,
                            [dst |-> r.dst, copied_any |-> acc.copied_any \/ r.copied_any],
                            fail)

\* Mutant: the mounted_by_us test is dropped.
ReleaseAfterCopy_Always(mnt, by_us, mt) == unmount_path(mnt, mt)

\* if mounted_by_us: unmount_path(mnt)
ReleaseAfterCopy(mnt, by_us, mt) == IF by_us THEN unmount_path(mnt, mt) ELSE mt

\* The loop of perform_copy_and_unmount from entry i of needs on.
RECURSIVE PerformFrom(_, _, _, _, _)
PerformFrom(i, needs, vols, acc, fail) ==
    IF i > Len(needs) THEN acc
    ELSE LET n == needs[i]
             r == CopyCandidates(TreeAt(n.mnt, acc.mounts, vols), 1,
                                 [dst |-> acc.dst, copied_any |-> acc.copied_any], fail)
         IN  PerformFrom(i + 1, needs, vols,
                         [dst |-> r.dst, copied_any |-> r.copied_any,
                          mounts |-> ReleaseAfterCopy(n.mnt, n.mounted_by_us, acc.mounts),
                          offered |-> acc.offered \cup
                                        ({VisibleDev(n.mnt, acc.mounts)} \ {0})],
                         fail)

\* perform_copy_and_unmount: [dst, copied_any, mounts, offered]
perform_copy_and_unmount(needs, vols, dst, mt, fail) ==
    PerformFrom(1, needs, vols,
                [dst |-> dst, copied_any |-> FALSE, mounts |-> mt, offered |-> {}], fail)

\* The files pick_video_from_target can return: sort by st_mtime, newest first;
\* among equal mtimes the order of iterdir decides.
Newest(dst) ==
    {n \in Names : /\ dst[n] # NoFile
                   /\ \A m \in Names : dst[m] # NoFile => dst[m].mtime <= dst[n].mtime}

pick_video_from_target(dst) == IF Newest(dst) = {} THEN {None} ELSE Newest(dst)

(***************************************************************************)
(* Player backends.  A player is [proc, strays, sock]; proc.st is "none"   *)
(* (self.proc is None), "run" (poll() is None) or "dead".                  *)
(***************************************************************************)
NoProc == [st |-> "none", file |-> None, paused |-> FALSE, eof |-> FALSE, ipc |-> FALSE]

DeadProc == [NoProc EXCEPT !.st = "dead"]

\* subprocess.Popen: the new child replaces self.proc; a child that was still
\* running is no longer tracked.
Popen(P, file, paused) ==
    [proc   |-> [st |-> "run", file |-> file, paused |-> paused, eof |-> FALSE, ipc |-> FALSE],
     strays |-> P.strays \/ P.proc.st = "run",
     sock   |-> P.sock]

\* MPVPlayer._kill_existing: removes IPC_SOCK, sends SIGTERM to every mpv and
\* waits 0.1 s; survive is whether the signalled processes outlive the wait.
mpv_kill_existing(P, survive) ==
    [proc   |-> IF P.proc.st = "run" /\ ~survive THEN DeadProc ELSE P.proc,
     strays |-> P.strays /\ survive,
     sock   |-> FALSE]

\* MPVPlayer._wait_ipc: up is whether mpv created its socket within the timeout.
mpv_wait_ipc(P, up) == [P EXCEPT !.proc.ipc = up, !.sock = up]

\* MPVPlayer._ipc: the command reaches mpv only if a live mpv listens on IPC_SOCK.
mpv_ipc(P, cmd) ==
    IF P.proc.st = "run" /\ P.proc.ipc
    THEN CASE cmd = "pause"      -> [P EXCEPT !.proc.paused = TRUE]
           [] cmd = "unpause"    -> [P EXCEPT !.proc.paused = FALSE]
           [] cmd = "seek0"      -> [P EXCEPT !.proc.eof = FALSE]
           [] cmd = "frame-step" -> [P EXCEPT !.proc.paused = TRUE]
           [] OTHER              -> P
    ELSE P

mpv_show_first_frame_paused(P) ==
    mpv_ipc(mpv_ipc(mpv_ipc(P, "pause"), "seek0"), "frame-step")

\* MPV_BASE_ARGS holds --pause: mpv always starts paused.
mpv_start_paused(P, file, survive, up) ==
    mpv_show_first_frame_paused(
        mpv_wait_ipc(Popen(mpv_kill_existing(P, survive), file, TRUE), up))

mpv_start_playing(P, file, survive, up) ==
    mpv_ipc(mpv_wait_ipc(Popen(mpv_kill_existing(P, survive), file, TRUE), up), "unpause")

mpv_play(P) == mpv_ipc(P, "unpause")

mpv_pause(P) == mpv_ipc(P, "pause")

mpv_is_eof(P) == P.proc.st = "run" /\ P.proc.ipc /\ P.proc.eof

\* MPVPlayer.stop: quit, then terminate, wait 1 s, kill on timeout: the tracked
\* child is gone either way; IPC_SOCK is removed.
mpv_stop(P) ==
    [proc   |-> IF P.proc.st = "run" THEN DeadProc ELSE P.proc,
     strays |-> P.strays,
     sock   |-> FALSE]

\* Mutant: "self.proc = None" is dropped and a child that outlived the wait stays
\* tracked.
omx_stop_KeepsProc(P, exited) ==
    [proc   |-> IF P.proc.st = "run" /\ exited THEN DeadProc ELSE P.proc,
     strays |-> P.strays,
     sock   |-> P.sock]

\* OMXPlayer.stop: 'q' and wait 1 s; on timeout terminate() without waiting;
\* exited is whether the child is gone when stop returns.  self.proc = None.
omx_stop(P, exited) ==
    [proc   |-> NoProc,
     strays |-> P.strays \/ (P.proc.st = "run" /\ ~exited),
     sock   |-> P.sock]

\* OMXPlayer._send_key('p'): toggles pause of a running child.
omx_toggle(P) ==
    IF P.proc.st = "run" THEN [P EXCEPT !.proc.paused = ~P.proc.paused] ELSE P

omx_start_paused(P, file, exited) == Popen(omx_stop(P, exited), file, TRUE)

omx_start_playing(P, file, exited) == omx_toggle(Popen(omx_stop(P, exited), file, TRUE))

omx_play(P) == omx_toggle(P)

\* OMXPlayer.pause: the same toggle key as play.
omx_pause(P) == omx_toggle(P)

\* OMXPlayer.show_first_frame_paused: stops a running child and starts nothing.
omx_show_first_frame_paused(P, exited) ==
    IF P.proc.st = "run" THEN omx_stop(P, exited) ELSE P

omx_is_eof(P) == P.proc.st = "dead"

Player == [proc |-> proc, strays |-> strays, sock |-> sock]

SetPlayer(P) == proc' = P.proc /\ strays' = P.strays /\ sock' = P.sock

\* player.<op> of the backend pick_player chose; out is what the external
\* process did within the operation's timeout, up whether IPC_SOCK appeared.
start_paused(file, out, up) ==
    IF backend = "mpv" THEN mpv_start_paused(Player, file, ~out, up)
    ELSE omx_start_paused(Player, file, out)

start_playing(file, out, up) ==
    IF backend = "mpv" THEN mpv_start_playing(Player, file, ~out, up)
    ELSE omx_start_playing(Player, file, out)

stop(out) == IF backend = "mpv" THEN mpv_stop(Player) ELSE omx_stop(Player, out)

play == IF backend = "mpv" THEN mpv_play(Player) ELSE omx_play(Player)

pause == IF backend = "mpv" THEN mpv_pause(Player) ELSE omx_pause(Player)

show_first_frame_paused(out) ==
    IF backend = "mpv" THEN mpv_show_first_frame_paused(Player)
    ELSE omx_show_first_frame_paused(Player, out)

is_eof == IF backend = "mpv" THEN mpv_is_eof(Player) ELSE omx_is_eof(Player)

PlayerAlive == proc.st = "run" \/ strays

\* pick_player: mode is --player, env_mode is VIDEO_PLAYER, which the set of
\* players shutil.which finds; "error" is the RuntimeError.
NoLaunch == [mode |-> "auto", env |-> "", which |-> {}]

\* Mutant: an explicitly requested player that is missing falls back to auto.
pick_player_Fallback(mode, env_mode, which) ==
    LET m == IF env_mode \in {"mpv", "omxplayer"} THEN env_mode ELSE mode
    IN  IF m \in which THEN m
        ELSE IF "mpv" \in which THEN "mpv"
        ELSE IF "omxplayer" \in which THEN "omxplayer"
        ELSE "error"

pick_player(mode, env_mode, which) ==
    LET m == IF env_mode \in {"mpv", "omxplayer"} THEN env_mode ELSE mode
    IN  IF m = "mpv" THEN (IF "mpv" \in which THEN "mpv" ELSE "error")
        ELSE IF m = "omxplayer" THEN (IF "omxplayer" \in which THEN "omxplayer" ELSE "error")
        ELSE IF "mpv" \in which THEN "mpv"
        ELSE IF "omxplayer" \in which THEN "omxplayer"
        ELSE "error"

(***************************************************************************)
(* main_loop                                                               *)
(***************************************************************************)
Init ==
    /\ backend \in {"mpv", "omxplayer"}
    /\ pc = "sync"
    /\ proc = NoProc
    /\ strays = FALSE
    /\ sock = FALSE
    /\ store \in InitialStores
    /\ attached = {}
    /\ vol = [d \in Devs |-> NoVolume]
    /\ mounts = <<>>
    /\ needs_list = <<>>
    /\ copied = FALSE
    /\ offered = {}
    /\ chosen = None
    /\ current_file = None
    /\ last_loaded = None
    /\ pending = {}
    /\ launch = NoLaunch

Playing == {"wait_eof_A", "wait_eof_B"}

\* Mutant: the player is stopped in every iteration.
PhaseAEnter_Always(needs) == "stop"

\* if needs_list: player.stop() ...; otherwise Phase B.
PhaseAEnter(needs) == IF Len(needs) > 0 THEN "stop" ELSE "idle"

\* Mutant: after a copy main_loop falls through to the paused preview.
PhaseANext_Preview(copied_any, c) == "idle"

\* Phase A after the copy: if copied: chosen = pick...; if chosen: start_playing,
\* continue; otherwise fall through to Phase B.
PhaseANext(copied_any, c) ==
    IF copied_any /\ c # None THEN "start_playing" ELSE "idle"

\* Mutant: the "if not chosen" test is dropped.
PhaseBNext_NoNoneTest(c) ==
    IF last_loaded = None \/ c # last_loaded THEN "start_paused"
    ELSE IF backend = "mpv" THEN "show_first_frame"
    ELSE "restart_paused"

\* Phase B: no file: sleep and continue; a new file: start_paused(chosen); the
\* same file: show_first_frame_paused (mpv) or start_paused(current_file).
PhaseBNext(c) ==
    IF c = None THEN "sync"
    ELSE IF last_loaded = None \/ c # last_loaded THEN "start_paused"
    ELSE IF backend = "mpv" THEN "show_first_frame"
    ELSE "restart_paused"

\* Where both wait loops leave to: the top of while True.
AfterPlaying == "sync"

\* The names of the videos a volume holds.
VideoNames(v) ==
    {(v.top \o v.sub)[i].name : i \in {j \in 1..Len(v.top \o v.sub) : IsVideo((v.top \o v.sub)[j])}}

\* needs_list = check_usb_for_updates(); if needs_list: ...
\* (copied and offered are dead here and cleared.)
CheckUsb ==
    /\ pc = "sync"
    /\ \E mfail \in SUBSET (attached \ MountedDevs(mounts)) :
          LET r == check_usb_for_updates(attached, vol, store, mounts, mfail)
          IN  /\ mounts' = r.mounts
              /\ needs_list' = r.needs
              /\ pc' = PhaseAEnter(r.needs)
              /\ pending' = IF mfail = {} THEN pending ELSE {}
    /\ copied' = FALSE
    /\ offered' = {}
    /\ UNCHANGED <<backend, launch, proc, strays, sock, store, attached, vol,
                   chosen, current_file, last_loaded>>

\* player.stop()
StopPlayer ==
    /\ pc = "stop"
    /\ \E out \in BOOLEAN : SetPlayer(stop(out))
    /\ pc' = "copy"
    /\ UNCHANGED <<backend, launch, store, attached, vol, mounts, needs_list, copied,
                   offered, chosen, current_file, last_loaded, pending>>

\* copied = perform_copy_and_unmount(needs_list); if copied: chosen = pick...
CopyUpdates ==
    /\ pc = "copy"
    /\ \E fail \in SUBSET Names :
          LET r == perform_copy_and_unmount(needs_list, vol, store, mounts, fail)
          IN  /\ store' = r.dst
              /\ mounts' = r.mounts
              /\ copied' = r.copied_any
              /\ offered' = r.offered
              /\ pending' = IF fail = {} THEN pending ELSE {}
              /\ IF r.copied_any
                 THEN \E c \in pick_video_from_target(r.dst) :
                          /\ chosen' = c
                          /\ current_file' = IF c # None THEN c ELSE current_file
                          /\ pc' = PhaseANext(TRUE, c)
                 ELSE /\ chosen' = chosen
                      /\ current_file' = current_file
                      /\ pc' = PhaseANext(FALSE, chosen)
    /\ UNCHANGED <<backend, launch, proc, strays, sock, attached, vol, needs_list, last_loaded>>

\* player.start_playing(chosen)
\* (needs_list is dead from here on and cleared.)
StartPlaying ==
    /\ pc = "start_playing"
    /\ \E out \in BOOLEAN, up \in BOOLEAN : SetPlayer(start_playing(chosen, out, up))
    /\ pc' = "wait_eof_A"
    /\ needs_list' = <<>>
    /\ pending' = {d \in pending : ~(/\ chosen \in VideoNames(vol[d])
                                      /\ ~AnyCandidateNeeds(vol[d], store))}
    /\ UNCHANGED <<backend, launch, store, attached, vol, mounts, copied,
                   offered, chosen, current_file, last_loaded>>

\* while True: if player.is_eof(): break; time.sleep(0.1)
WaitEof ==
    /\ pc \in Playing
    /\ pc' = IF is_eof THEN AfterPlaying ELSE pc
    /\ UNCHANGED <<backend, launch, proc, strays, sock, store, attached, vol, mounts,
                   needs_list, copied, offered, chosen, current_file, last_loaded,
                   pending>>

\* Phase B: chosen = pick_video_from_target() and the choice of how to show it.
\* (needs_list is dead from here on and cleared.)
PickIdle ==
    /\ pc = "idle"
    /\ \E c \in pick_video_from_target(store) :
          /\ chosen' = c
          /\ pc' = PhaseBNext(c)
          /\ current_file' = IF PhaseBNext(c) = "start_paused" THEN c ELSE current_file
    /\ needs_list' = <<>>
    /\ UNCHANGED <<backend, launch, proc, strays, sock, store, attached, vol, mounts,
                   copied, offered, last_loaded, pending>>

\* player.start_paused(chosen); last_loaded = chosen
StartPaused ==
    /\ pc = "start_paused"
    /\ \E out \in BOOLEAN, up \in BOOLEAN : SetPlayer(start_paused(chosen, out, up))
    /\ last_loaded' = chosen
    /\ pc' = "await_button"
    /\ UNCHANGED <<backend, launch, store, attached, vol, mounts, needs_list, copied,
                   offered, chosen, current_file, pending>>

\* else-branch, omxplayer: player.start_paused(current_file)
RestartPaused ==
    /\ pc = "restart_paused"
    /\ \E out \in BOOLEAN, up \in BOOLEAN : SetPlayer(start_paused(current_file, out, up))
    /\ pc' = "await_button"
    /\ UNCHANGED <<backend, launch, store, attached, vol, mounts, needs_list, copied,
                   offered, chosen, current_file, last_loaded, pending>>

\* else-branch, mpv: player.show_first_frame_paused()
ShowFirstFrame ==
    /\ pc = "show_first_frame"
    /\ SetPlayer(mpv_show_first_frame_paused(Player))
    /\ pc' = "await_button"
    /\ UNCHANGED <<backend, launch, store, attached, vol, mounts, needs_list, copied,
                   offered, chosen, current_file, last_loaded, pending>>

\* button.wait_for_press() returns; player.play()
ButtonPress ==
    /\ pc = "await_button"
    /\ SetPlayer(play)
    /\ pc' = "wait_eof_B"
    /\ pending' = {}
    /\ UNCHANGED <<backend, launch, store, attached, vol, mounts, needs_list, copied,
                   offered, chosen, current_file, last_loaded>>

(***************************************************************************)
(* Environment: the player processes, the USB sticks, the system's mounts  *)
(***************************************************************************)
\* The tracked child exits (a crash, or the end of a requested shutdown).
ProcExits ==
    /\ proc.st = "run"
    /\ proc' = DeadProc
    /\ UNCHANGED <<backend, launch, pc, strays, sock, store, attached, vol, mounts,
                   needs_list, copied, offered, chosen, current_file, last_loaded,
                   pending>>

\* The untracked player processes exit.
StraysExit ==
    /\ strays
    /\ strays' = FALSE
    /\ UNCHANGED <<backend, launch, pc, proc, sock, store, attached, vol, mounts,
                   needs_list, copied, offered, chosen, current_file, last_loaded,
                   pending>>

\* Playback reaches the end of the file: mpv (--keep-open=always) stays alive,
\* paused at the end with eof-reached set; omxplayer exits.
PlaybackEnds ==
    /\ proc.st = "run" /\ ~proc.paused /\ ~proc.eof
    /\ proc' = IF backend = "mpv" THEN [proc EXCEPT !.eof = TRUE, !.paused = TRUE]
               ELSE DeadProc
    /\ UNCHANGED <<backend, launch, pc, strays, sock, store, attached, vol, mounts,
                   needs_list, copied, offered, chosen, current_file, last_loaded,
                   pending>>

\* A stick is plugged in.
Attach(d) ==
    /\ d \notin attached
    /\ d \notin MountedDevs(mounts)
    /\ attached' = attached \cup {d}
    /\ \E img \in VolumeImages :
          /\ vol' = [vol EXCEPT ![d] = img]
          /\ pending' = IF pc \in Playing /\ AnyCandidateNeeds(img, store)
                        THEN pending \cup {d} ELSE pending
    /\ UNCHANGED <<backend, launch, pc, proc, strays, sock, store, mounts,
                   needs_list, copied, offered, chosen, current_file, last_loaded>>

\* A stick that is not mounted is pulled out.
Detach(d) ==
    /\ d \in attached
    /\ d \notin MountedDevs(mounts)
    /\ attached' = attached \ {d}
    /\ vol' = [vol EXCEPT ![d] = NoVolume]
    /\ pending' = pending \ {d}
    /\ UNCHANGED <<backend, launch, pc, proc, strays, sock, store, mounts,
                   needs_list, copied, offered, chosen, current_file, last_loaded>>

\* The system's automounter mounts a partition on a mountpoint of its own.
SysMount(d) ==
    /\ d \in attached
    /\ d \notin MountedDevs(mounts)
    /\ mounts' = Append(mounts, [dev |-> d, mnt |-> SysMountPoint(d), by_us |-> FALSE])
    /\ UNCHANGED <<backend, launch, pc, proc, strays, sock, store, attached, vol,
                   needs_list, copied, offered, chosen, current_file, last_loaded,
                   pending>>

MainLoop ==
    \/ CheckUsb
    \/ StopPlayer
    \/ CopyUpdates
    \/ StartPlaying
    \/ WaitEof
    \/ PickIdle
    \/ StartPaused
    \/ RestartPaused
    \/ ShowFirstFrame
    \/ ButtonPress

Environment ==
    \/ ProcExits
    \/ StraysExit
    \/ PlaybackEnds
    \/ \E d \in Devs : Attach(d)
    \/ \E d \in Devs : Detach(d)
    \/ \E d \in Devs : SysMount(d)

Next == MainLoop \/ Environment

Spec == Init /\ [][Next]_vars

\* main_loop is a running thread: a wait loop keeps polling is_eof.
FairSpec == Spec /\ WF_vars(WaitEof)

\* The runs in which the tracked player process never exits on its own.
EnvironmentNoCrash ==
    \/ StraysExit
    \/ PlaybackEnds
    \/ \E d \in Devs : Attach(d)
    \/ \E d \in Devs : Detach(d)
    \/ \E d \in Devs : SysMount(d)

NextNoCrash == MainLoop \/ EnvironmentNoCrash

NoCrashSpec == Init /\ [][NextNoCrash]_vars

(***************************************************************************)
(* Startup: main_loop from its first line, for every --player argument,    *)
(* VIDEO_PLAYER value and set of installed players.                        *)
(***************************************************************************)
Launches ==
    [mode  : {"auto", "mpv", "omxplayer"},
     env   : {"", "mpv", "omxplayer", "vlc"},
     which : SUBSET {"mpv", "omxplayer"}]

StartInit ==
    /\ backend = None
    /\ pc = "startup"
    /\ proc = NoProc
    /\ strays = FALSE
    /\ sock = FALSE
    /\ store \in InitialStores
    /\ attached = {}
    /\ vol = [d \in Devs |-> NoVolume]
    /\ mounts = <<>>
    /\ needs_list = <<>>
    /\ copied = FALSE
    /\ offered = {}
    /\ chosen = None
    /\ current_file = None
    /\ last_loaded = None
    /\ pending = {}
    /\ launch \in Launches

\* player_name, player = pick_player(player_mode); last_loaded = None; ...
\* A RuntimeError leaves main_loop before while True (pc = "failed").
Startup ==
    /\ pc = "startup"
    /\ LET r == pick_player(launch.mode, launch.env, launch.which)
       IN  IF r = "error"
           THEN pc' = "failed" /\ UNCHANGED <<backend, launch>>
           ELSE pc' = "sync" /\ backend' = r /\ launch' = NoLaunch
    /\ UNCHANGED <<proc, strays, sock, store, attached, vol, mounts, needs_list,
                   copied, offered, chosen, current_file, last_loaded, pending>>

StartNext == Startup \/ Next

StartSpec == StartInit /\ [][StartNext]_vars

(***************************************************************************)
(* Unhandled errors.  MPVPlayer._ipc catches FileNotFoundError and         *)
(* ConnectionRefusedError only: when mpv exits after connect() succeeded,  *)
(* sendall raises BrokenPipeError, which no caller but stop() and no frame *)
(* of main_loop catches; main_loop is left (pc = "exited").                *)
(***************************************************************************)
\* connect() can succeed: a live mpv listens on IPC_SOCK.
IpcConnects(P) == P.proc.st = "run" /\ P.proc.ipc

\* The player after an _ipc call in which mpv exited during sendall.
mpv_ipc_raises(P) == [P EXCEPT !.proc = DeadProc]

\* player.start_playing(chosen): the unpause of line 210 raises.
StartPlayingRaises ==
    /\ pc = "start_playing" /\ backend = "mpv"
    /\ \E out \in BOOLEAN :
          SetPlayer(mpv_ipc_raises(
              mpv_wait_ipc(Popen(mpv_kill_existing(Player, ~out), chosen, TRUE), TRUE)))
    /\ pc' = "exited"
    /\ UNCHANGED <<backend, launch, store, attached, vol, mounts, needs_list, copied,
                   offered, chosen, current_file, last_loaded, pending>>

\* player.start_paused(chosen): the first command of show_first_frame_paused
\* (line 219) raises; last_loaded is not assigned.
StartPausedRaises ==
    /\ pc = "start_paused" /\ backend = "mpv"
    /\ \E out \in BOOLEAN :
          SetPlayer(mpv_ipc_raises(
              mpv_wait_ipc(Popen(mpv_kill_existing(Player, ~out), chosen, TRUE), TRUE)))
    /\ pc' = "exited"
    /\ UNCHANGED <<backend, launch, store, attached, vol, mounts, needs_list, copied,
                   offered, chosen, current_file, last_loaded, pending>>

\* player.show_first_frame_paused() of Phase B raises.
ShowFirstFrameRaises ==
    /\ pc = "show_first_frame" /\ backend = "mpv"
    /\ IpcConnects(Player)
    /\ SetPlayer(mpv_ipc_raises(Player))
    /\ pc' = "exited"
    /\ UNCHANGED <<backend, launch, store, attached, vol, mounts, needs_list, copied,
                   offered, chosen, current_file, last_loaded, pending>>

\* The button was pressed and player.play() raises.
PlayRaises ==
    /\ pc = "await_button" /\ backend = "mpv"
    /\ IpcConnects(Player)
    /\ SetPlayer(mpv_ipc_raises(Player))
    /\ pc' = "exited"
    /\ UNCHANGED <<backend, launch, store, attached, vol, mounts, needs_list, copied,
                   offered, chosen, current_file, last_loaded, pending>>

UnhandledError ==
    \/ StartPlayingRaises
    \/ StartPausedRaises
    \/ ShowFirstFrameRaises
    \/ PlayRaises

ErrNext == Next \/ UnhandledError

ErrSpec == Init /\ [][ErrNext]_vars

(***************************************************************************)
(* The player interface on its own: a client that calls the operations of  *)
(* BasePlayer in any order; pc is the call that returned last.             *)
(***************************************************************************)
PlayerInit ==
    /\ backend \in {"mpv", "omxplayer"}
    /\ pc = "api"
    /\ proc = NoProc
    /\ strays = FALSE
    /\ sock = FALSE
    /\ store = EmptyStore
    /\ attached = {}
    /\ vol = [d \in Devs |-> NoVolume]
    /\ mounts = <<>>
    /\ needs_list = <<>>
    /\ copied = FALSE
    /\ offered = {}
    /\ chosen = None
    /\ current_file = None
    /\ last_loaded = None
    /\ pending = {}
    /\ launch = NoLaunch

Stopped == {"after_stop", "after_stop_again"}

ApiStartPaused ==
    /\ \E f \in Names, out \in BOOLEAN, up \in BOOLEAN :
          /\ SetPlayer(start_paused(f, out, up))
          /\ current_file' = f
    /\ pc' = "after_start_paused"
    /\ UNCHANGED <<backend, launch, store, attached, vol, mounts, needs_list, copied,
                   offered, chosen, last_loaded, pending>>

ApiStartPlaying ==
    /\ \E f \in Names, out \in BOOLEAN, up \in BOOLEAN :
          /\ SetPlayer(start_playing(f, out, up))
          /\ current_file' = f
    /\ pc' = "after_start_playing"
    /\ UNCHANGED <<backend, launch, store, attached, vol, mounts, needs_list, copied,
                   offered, chosen, last_loaded, pending>>

ApiPlay ==
    /\ SetPlayer(play)
    /\ pc' = "after_play"
    /\ UNCHANGED <<backend, launch, store, attached, vol, mounts, needs_list, copied,
                   offered, chosen, current_file, last_loaded, pending>>

ApiPause ==
    /\ SetPlayer(pause)
    /\ pc' = "after_pause"
    /\ UNCHANGED <<backend, launch, store, attached, vol, mounts, needs_list, copied,
                   offered, chosen, current_file, last_loaded, pending>>

ApiShowFirstFrame ==
    /\ \E out \in BOOLEAN : SetPlayer(show_first_frame_paused(out))
    /\ pc' = "after_show_first_frame"
    /\ UNCHANGED <<backend, launch, store, attached, vol, mounts, needs_list, copied,
                   offered, chosen, current_file, last_loaded, pending>>

ApiStop ==
    /\ \E out \in BOOLEAN : SetPlayer(stop(out))
    /\ pc' = IF pc \in Stopped THEN "after_stop_again" ELSE "after_stop"
    /\ UNCHANGED <<backend, launch, store, attached, vol, mounts, needs_list, copied,
                   offered, chosen, current_file, last_loaded, pending>>

PlayerNext ==
    \/ ApiStartPaused
    \/ ApiStartPlaying
    \/ ApiPlay
    \/ ApiPause
    \/ ApiShowFirstFrame
    \/ ApiStop
    \/ ProcExits
    \/ StraysExit
    \/ PlaybackEnds

PlayerSpec == PlayerInit /\ [][PlayerNext]_vars

(***************************************************************************)
(* would_copy_new_videos and copy_new_videos on their own: a source        *)
(* directory (vol[1]) and a store drawn from bounded sets, probed and      *)
(* copied in any order.                                                    *)
(***************************************************************************)
\* The files a source directory can hold; the mtimes 2, 3 and 5 hold pairs that
\* fall into the same whole second and pairs that do not.
SyncFiles ==
    { [name |-> "a.mp4", ext |-> ".mp4", size |-> 1, mtime |-> 2],
      [name |-> "a.mp4", ext |-> ".mp4", size |-> 1, mtime |-> 3],
      [name |-> "a.mp4", ext |-> ".mp4", size |-> 1, mtime |-> 5],
      [name |-> "a.mp4", ext |-> ".mp4", size |-> 2, mtime |-> 3],
      [name |-> "b.mkv", ext |-> ".mkv", size |-> 1, mtime |-> 5] }

NotesFile == [name |-> "notes.txt", ext |-> ".txt", size |-> 1, mtime |-> 9]

\* Source trees: up to one video and one other file in the directory itself, up
\* to one video in a subdirectory (of the same name as the first, or not).
SyncTrees ==
    { [top |-> t, sub |-> u] :
        t \in {<<>>} \cup {<<f>> : f \in SyncFiles} \cup {<<f, NotesFile>> : f \in SyncFiles},
        u \in {<<>>} \cup {<<f>> : f \in SyncFiles} }

SyncStores ==
    { [n \in Names |-> IF n = "a.mp4" THEN a ELSE b] :
        a \in {NoFile} \cup {[size |-> f.size, mtime |-> f.mtime] :
                                f \in {g \in SyncFiles : g.name = "a.mp4"}},
        b \in {NoFile, [size |-> 1, mtime |-> 5]} }

\* os.walk(src_dir): the directory's own files, then those of its subdirectory.
SrcFiles == Walk(vol[1], "root")

SyncInit ==
    /\ backend = "mpv"
    /\ pc = "sync_ready"
    /\ proc = NoProc
    /\ strays = FALSE
    /\ sock = FALSE
    /\ store \in SyncStores
    /\ attached = {}
    /\ \E t \in SyncTrees : vol = [d \in Devs |-> IF d = 1 THEN t ELSE NoVolume]
    /\ mounts = <<>>
    /\ needs_list = <<>>
    /\ copied = FALSE
    /\ offered = {}
    /\ chosen = None
    /\ current_file = None
    /\ last_loaded = None
    /\ pending = {}
    /\ launch = NoLaunch

\* would_copy_new_videos(src_dir, TARGET_DIR); pc keeps what it returned.
SyncProbe ==
    /\ pc' = IF would_copy_new_videos(SrcFiles, store) THEN "would_true" ELSE "would_false"
    /\ UNCHANGED <<backend, launch, proc, strays, sock, store, attached, vol, mounts,
                   needs_list, copied, offered, chosen, current_file, last_loaded,
                   pending>>

\* copied = copy_new_videos(src_dir, TARGET_DIR), copy2 raising for the names in fail.
SyncCopyWith(fail) ==
    /\ LET r == copy_new_videos(SrcFiles, store, fail)
       IN  store' = r.dst /\ copied' = r.copied_any
    /\ pc' = "after_copy"
    /\ UNCHANGED <<backend, launch, proc, strays, sock, attached, vol, mounts,
                   needs_list, offered, chosen, current_file, last_loaded, pending>>

SyncCopy == \E fail \in SUBSET Names : SyncCopyWith(fail)

SyncNext == SyncProbe \/ SyncCopy

SyncSpec == SyncInit /\ [][SyncNext]_vars

(***************************************************************************)
(* Properties                                                              *)
(***************************************************************************)
NeedDevs(needs) == {needs[k].dev : k \in 1..Len(needs)}

ByUsDevs(mt) == {mt[i].dev : i \in {j \in 1..Len(mt) : mt[j].by_us}}

\* C1: at no reachable state are two player processes alive at once: when a
\* start spawns the new child, no child spawned earlier is still alive.
C1_OnePlayerProcess == ~(proc.st = "run" /\ strays)

\* C2: if the player process is dead while main_loop is in a Playing wait loop,
\* main_loop eventually leaves the loop and returns to the sync check.
C2_DeadPlayerEndsPlaying == [](pc \in Playing /\ proc.st = "dead" => <>(pc = "sync"))

\* C3: whenever main_loop reaches the wait for the button, a player process is
\* alive, has the chosen (newest) store file loaded and is paused.
C3_ReadyBeforeButtonWait ==
    [][pc # "await_button" /\ pc' = "await_button"
         => /\ proc'.st = "run"
            /\ proc'.file = chosen'
            /\ chosen' \in Newest(store')
            /\ proc'.paused]_vars

\* C4: no file of the store is written while a player process started by this
\* program is alive.
C4_NoCopyWhilePlayerAlive == [][pc = "copy" /\ store' # store => ~PlayerAlive]_vars

\* C5: after a Playing phase the sync check runs before the button is awaited, so
\* an update that became available during playback has been copied and played by
\* the time the button is awaited again.
C5_UpdatePlayedBeforeButton == pc = "await_button" => pending = {}

\* The control flow behind C5: when a Playing wait loop ends, main_loop goes to
\* the sync check, and from there to the stop of the player or to Phase B only
\* through check_usb_for_updates: never from Playing to the button wait directly.
C5_SyncCheckAfterPlaying ==
    [][/\ pc \in Playing /\ pc' # pc => pc' = "sync"
       /\ pc = "sync" /\ pc' # pc => pc' \in {"stop", "idle"} /\ offered' = {}
       /\ pc' = "await_button" /\ pc' # pc => pc \notin Playing]_vars

\* A sync check that follows a Playing phase which ended at end-of-stream.
C5_AfterPlayingReached == pc = "sync" /\ last_loaded # None /\ proc.st # "none" /\ is_eof

C7_ProbeMountsReleased ==
    [][pc = "sync" /\ pc' # pc => ByUsDevs(mounts') \subseteq NeedDevs(needs_list')]_vars

\* C8: unmount_path only ever removes a mount this process made in the same
\* cycle (mounted_by_us = true); a volume found already mounted stays mounted.
C8_OnlyOwnMountsUnmounted ==
    [][pc' # pc => \A i \in 1..Len(mounts) :
                      mounts[i].dev \notin MountedDevs(mounts')
                          => pc = "copy" /\ mounts[i].by_us]_vars

\* perform_copy_and_unmount has run on a volume found already mounted, which is
\* still mounted, and on one this process mounted, which is unmounted.
C8_Witness ==
    /\ pc \in {"start_playing", "idle"}
    /\ \E k \in 1..Len(needs_list) :
          /\ ~needs_list[k].mounted_by_us
          /\ needs_list[k].dev \in offered \cap MountedDevs(mounts)
    /\ \E k \in 1..Len(needs_list) :
          /\ needs_list[k].mounted_by_us
          /\ needs_list[k].dev \in offered \ MountedDevs(mounts)

\* C9: after perform_copy_and_unmount, no volume this process mounted is still
\* mounted and every volume reported in needs_list had its files offered to
\* copy_new_videos.
C9_SyncPhaseComplete ==
    [][pc = "copy" /\ pc' # pc
         => ByUsDevs(mounts') = {} /\ NeedDevs(needs_list) \subseteq offered']_vars

\* C10: while the store has no playable file no player process is spawned:
\* main_loop is never at or past a start_paused / start_playing call, and a
\* start is only ever reached with an existing store file.
C10_NoSpawnWithoutVideo ==
    /\ Newest(store) = {}
          => /\ proc = NoProc /\ ~strays
             /\ pc \in {"sync", "stop", "copy", "idle"}
    /\ pc \in {"start_playing", "start_paused"} => chosen \in Newest(store)
    /\ pc = "restart_paused" => current_file # None /\ store[current_file] # NoFile

C10_Witness == pc = "idle" /\ Newest(store) = {} /\ offered # {}

\* C11: after stop() returns the child of the session is not alive (and has not
\* been left running untracked) and, for mpv, IPC_SOCK does not exist.
C11_StopEndsSession ==
    [][ApiStop => /\ proc'.st # "run"
                  /\ strays' => strays
                  /\ backend = "mpv" => ~sock']_vars

\* C12: stop() on a session that is already stopped changes nothing: the
\* session, the processes and IPC_SOCK stay as the first stop() left them.
C12_StopIdempotent ==
    [][ApiStop /\ pc \in Stopped => UNCHANGED <<proc, strays, sock>>]_vars

\* A second stop() of a session that had been started.
C12_Witness == pc = "after_stop_again" /\ current_file # None /\ proc.st # "run"

\* C13: immediately after show_first_frame_paused() returns, is_eof() is false.
C13_NotEofAfterFirstFrame == [][ApiShowFirstFrame => ~is_eof']_vars

\* The store holds a file of f's name with equal size and equal modification
\* time in whole seconds.
SameInStore(f, dst) ==
    /\ dst[f.name] # NoFile
    /\ dst[f.name].size = f.size
    /\ dst[f.name].mtime \div TicksPerSec = f.mtime \div TicksPerSec

\* C14: for a candidate file the store holds with equal size and equal mtime in
\* whole seconds, would_copy_new_videos reports false and copy_new_videos does
\* not write; when that is so for every candidate of the source directory, both
\* return false and the store is unchanged.
C14_EqualFilesNotCopied ==
    LET none == [dst |-> store, copied_any |-> FALSE]
    IN  /\ \A i \in 1..Len(SrcFiles) :
              IsVideo(SrcFiles[i]) /\ SameInStore(SrcFiles[i], store)
                  => /\ ~would_copy_new_videos(<<SrcFiles[i]>>, store)
                     /\ \A fail \in SUBSET Names : CopyOne(SrcFiles[i], none, fail) = none
        /\ (\A i \in 1..Len(SrcFiles) :
                IsVideo(SrcFiles[i]) => SameInStore(SrcFiles[i], store))
              => /\ ~would_copy_new_videos(SrcFiles, store)
                 /\ pc # "would_true"
                 /\ \A fail \in SUBSET Names : copy_new_videos(SrcFiles, store, fail) = none

\* copy_new_videos has run on a directory whose video the store holds with the
\* same size and a different mtime of the same second, and copied nothing.
C14_Witness ==
    /\ pc = "after_copy" /\ ~copied
    /\ \E i \in 1..Len(SrcFiles) :
          /\ IsVideo(SrcFiles[i]) /\ SameInStore(SrcFiles[i], store)
          /\ store[SrcFiles[i].name].mtime # SrcFiles[i].mtime
    /\ \A i \in 1..Len(SrcFiles) : IsVideo(SrcFiles[i]) => SameInStore(SrcFiles[i], store)

\* C15: the sync check goes on to player.stop() only if would_copy_new_videos
\* was true for a candidate directory of an attached volume in that iteration;
\* otherwise it goes to Phase B with the player session and the store unchanged.
C15_StopOnlyWhenNeeded ==
    [][/\ pc = "sync" /\ pc' # pc
          => /\ pc' = "stop" => \E d \in attached : AnyCandidateNeeds(vol[d], store)
             /\ pc' # "stop" => pc' = "idle" /\ UNCHANGED <<proc, strays, sock, store>>
       /\ pc = "stop" /\ pc' # pc => Len(needs_list) > 0]_vars

\* A sync check that found an attached volume needing no copy and left a live
\* player session alone.
C15_Witness ==
    /\ pc = "idle" /\ needs_list = <<>> /\ attached # {}
    /\ proc.st = "run" /\ ~AnyCandidateNeeds(vol[CHOOSE d \in attached : TRUE], store)

\* C16: whatever control-channel, copy and mount failures occur, main_loop is
\* never left by an unhandled error.
C16_LoopNeverExits == pc # "exited"

\* The player the launch asks for by name (VIDEO_PLAYER before --player), or
\* "auto".
Requested(l) ==
    IF l.env \in {"mpv", "omxplayer"} THEN l.env ELSE l.mode

\* No supported player is available: none is installed, or the one asked for by
\* name is missing.
NoPlayerAvailable(l) ==
    \/ l.which = {}
    \/ Requested(l) # "auto" /\ Requested(l) \notin l.which

\* C17: with no supported player available main_loop fails before its first
\* iteration and stays failed: no probe has run, this process has made no mount
\* and no player process exists.
C17_NoPlayerFailsAtStartup ==
    [][/\ pc = "startup" /\ pc' # pc /\ NoPlayerAvailable(launch) => pc' = "failed"
       /\ pc = "failed" => pc' = "failed"
       /\ pc' = "failed" => /\ proc' = NoProc /\ ~strays' /\ ~sock'
                            /\ ByUsDevs(mounts') = {}
                            /\ needs_list' = <<>> /\ offered' = {}
                            /\ store' = store]_vars

\* The requested player is missing while the other one is installed and a stick
\* is plugged in.
C17_Witness ==
    /\ pc = "failed" /\ launch.which # {} /\ attached # {}

\* C18: a button press in AwaitingButton leaves a player process alive and
\* playing (not paused).
C18_ButtonStartsPlayback ==
    [][pc = "await_button" /\ pc' = "wait_eof_B" => proc'.st = "run" /\ ~proc'.paused]_vars

\* C19: after copy_new_videos has run on a source directory with no copy error,
\* would_copy_new_videos on the same directory and the resulting store is false.
C19_SyncConverges ==
    [][SyncCopyWith({}) => ~would_copy_new_videos(SrcFiles, store')]_vars

\* C20: the file main_loop starts playing after a sync phase that copied
\* something is one of the files that phase copied (its store entry changed).
C20_PlaysCopiedFile ==
    [][pc = "copy" /\ pc' = "start_playing" => store'[chosen'] # store[chosen']]_vars

====
